---- MODULE Spec2Model ----
(***************************************************************************)
(* Model of scripts/build.py: the static-site build of the stock           *)
(* prediction pages.  Text (names, slugs, paths, URLs) is modelled as      *)
(* sequences of one-character strings so that slug(), title(), the         *)
(* sort keys and the sitemap's rel[:-10] are computed as the code          *)
(* computes them.  Prices are exact rationals extended with NaN (the       *)
(* value pandas gives an empty cell) and the infinities.  Dates are        *)
(* proleptic Gregorian ordinals (datetime.date.toordinal()).               *)
(* Of a CSV row the model keeps symbol, description and the four prices;   *)
(* exchange, sector and industry are copied to the page verbatim and       *)
(* decide nothing, and column names are taken as already stripped and      *)
(* lower-cased.  The text of tpl_base() is reduced to the fields of Page.  *)
(***************************************************************************)
EXTENDS Integers, Sequences, FiniteSets, TLC

VARIABLES
    pc,            \* position inside main(), or inside a pure-function harness
    dataDir,       \* Data/: [exists, entries], entries = set of [name, isDir]
    distExists,    \* DIST.exists()
    dist,          \* files under DIST: path (sequence of components) -> content
    removed,       \* history: paths shutil.rmtree removed in this run of main()
    written,       \* history: paths written by this run of main()
    date_obj,      \* session date (ordinal) returned by find_latest_date_folder
    regions,       \* main(): sorted list of region directory names
    rgi,           \* main(): index of the region being processed
    files,         \* main(): sorted list of CSV stems of the current region
    fi,            \* main(): index of the CSV being processed
    country_links, \* main(): (country_name, c_slug) pairs of the current region
    df,            \* main(): rows of the DataFrame returned by read_csv_safe
    ri,            \* main(): number of rows of df already iterated
    rows_html,     \* main(): table rows of the current country
    wrote,         \* history: per iterated row, number of detail pages written
    nrows,         \* rows read so far in this build (bounded by MaxRows)
    arg,           \* pure-function harness: the input
    ret            \* pure-function harness: the output

vars == <<pc, dataDir, distExists, dist, removed, written, date_obj, regions, rgi, files,
          fi, country_links, df, ri, rows_html, wrote, nrows, arg, ret>>

(***************************************************************************)
(* Bounds                                                                  *)
(***************************************************************************)
MaxRows == 2        \* rows read per build, over all CSV files
MaxPrice == 4       \* classify harness: prices range over 0..MaxPrice
DateSpan == 40      \* date harness: ordinals in a window of this many days

(* datetime.date.max.toordinal(): date + timedelta beyond it is OverflowError *)
MAXORDINAL == 3652059

(***************************************************************************)
(* Characters and strings                                                  *)
(***************************************************************************)
UpperChars == <<"A","B","C","D","E","F","G","H","I","J","K","L","M",
                "N","O","P","Q","R","S","T","U","V","W","X","Y","Z">>
LowerChars == <<"a","b","c","d","e","f","g","h","i","j","k","l","m",
                "n","o","p","q","r","s","t","u","v","w","x","y","z">>
DigitChars == <<"0","1","2","3","4","5","6","7","8","9">>
\* code-point order of the characters that occur in names
Ascii == <<" ", "-", ".", "/">> \o DigitChars \o UpperChars \o LowerChars

Range(s) == {s[i] : i \in 1..Len(s)}
IndexOf(s, c) == CHOOSE i \in 1..Len(s) : s[i] = c
Chars == Range(Ascii)
UpperSet == Range(UpperChars)
LowerSet == Range(LowerChars)
DigitSet == Range(DigitChars)
OrdMap == [c \in Chars |-> IndexOf(Ascii, c)]
LowerMap == [c \in UpperSet |-> LowerChars[IndexOf(UpperChars, c)]]
UpperMap == [c \in LowerSet |-> UpperChars[IndexOf(LowerChars, c)]]
DigitMap == [c \in DigitSet |-> IndexOf(DigitChars, c) - 1]

Ord(c) == OrdMap[c]
IsUpper(c) == c \in UpperSet
IsLower(c) == c \in LowerSet
IsDigit(c) == c \in DigitSet
LowerCh(c) == IF IsUpper(c) THEN LowerMap[c] ELSE c
UpperCh(c) == IF IsLower(c) THEN UpperMap[c] ELSE c
DigitVal(c) == DigitMap[c]

\* str.lower()
lower(s) == [i \in 1..Len(s) |-> LowerCh(s[i])]

\* str.strip(chars): drop leading and trailing characters that are in cs
RECURSIVE LStrip(_, _)
LStrip(s, cs) == IF s # <<>> /\ Head(s) \in cs THEN LStrip(Tail(s), cs) ELSE s
RECURSIVE RStrip(_, _)
RStrip(s, cs) ==
    IF s # <<>> /\ s[Len(s)] \in cs THEN RStrip(SubSeq(s, 1, Len(s) - 1), cs) ELSE s
strip(s, cs) == RStrip(LStrip(s, cs), cs)

\* str.replace(a, b) for single characters
replace(s, a, b) == [i \in 1..Len(s) |-> IF s[i] = a THEN b ELSE s[i]]

\* str.title(): a cased character is upper-cased when it follows an uncased one
IsCased(c) == IsUpper(c) \/ IsLower(c)
title(s) ==
    [i \in 1..Len(s) |->
        IF i = 1 \/ ~IsCased(s[i - 1]) THEN UpperCh(s[i]) ELSE LowerCh(s[i])]

\* lexicographic order of strings by code point
RECURSIVE StrLess(_, _)
StrLess(a, b) ==
    IF b = <<>> THEN FALSE
    ELSE IF a = <<>> THEN TRUE
    ELSE IF Head(a) = Head(b) THEN StrLess(Tail(a), Tail(b))
    ELSE Ord(Head(a)) < Ord(Head(b))

\* re.sub(r"[^a-z0-9]+", "-", s)
IsSlugChar(c) == IsLower(c) \/ IsDigit(c)
RECURSIVE SubRuns(_, _)
SubRuns(s, inRun) ==
    IF s = <<>> THEN <<>>
    ELSE IF IsSlugChar(Head(s)) THEN <<Head(s)>> \o SubRuns(Tail(s), FALSE)
    ELSE IF inRun THEN SubRuns(Tail(s), TRUE)
    ELSE <<"-">> \o SubRuns(Tail(s), TRUE)

slug(s) ==
    LET t == strip(SubRuns(lower(strip(s, {" "})), FALSE), {"-"})
    IN  IF t = <<>> THEN <<"s","t","o","c","k">> ELSE t

(***************************************************************************)
(* Floats: exact rationals n/d (d > 0, lowest terms), extended with the    *)
(* IEEE values +inf, -inf and NaN.  Rounding is not modelled.              *)
(***************************************************************************)
RECURSIVE Gcd(_, _)
Gcd(a, b) == IF b = 0 THEN a ELSE Gcd(b, a % b)
AbsInt(x) == IF x < 0 THEN -x ELSE x
Sign(x) == IF x < 0 THEN -1 ELSE IF x > 0 THEN 1 ELSE 0

NaN == [k |-> "nan", n |-> 0, d |-> 1]
\* +inf is [k |-> "inf", n |-> 1], -inf is [k |-> "inf", n |-> -1]
Inf(sign) == [k |-> "inf", n |-> sign, d |-> 1]
Rat(n, d) ==
    LET g == Gcd(AbsInt(n), AbsInt(d))
        s == IF d < 0 THEN -1 ELSE 1
    IN  [k |-> "fin", n |-> (s * n) \div g, d |-> (s * d) \div g]
Num(n) == Rat(n, 1)
IsNaN(a) == a.k = "nan"
IsInf(a) == a.k = "inf"
IsFinite(a) == a.k = "fin"

FNeg(a) == IF IsNaN(a) THEN NaN ELSE [a EXCEPT !.n = -a.n]
FAdd(a, b) ==
    IF IsNaN(a) \/ IsNaN(b) THEN NaN
    ELSE IF IsInf(a) /\ IsInf(b) THEN (IF a.n = b.n THEN a ELSE NaN)
    ELSE IF IsInf(a) THEN a
    ELSE IF IsInf(b) THEN b
    ELSE Rat(a.n * b.d + b.n * a.d, a.d * b.d)
FSub(a, b) == FAdd(a, FNeg(b))
FAbs(a) ==
    IF IsNaN(a) THEN NaN ELSE IF IsInf(a) THEN Inf(1) ELSE Rat(AbsInt(a.n), a.d)
\* a / b for b # 0 (classify divides only after it has seen rng > 0 fail to be false)
FDiv(a, b) ==
    IF IsNaN(a) \/ IsNaN(b) THEN NaN
    ELSE IF IsInf(a) /\ IsInf(b) THEN NaN
    ELSE IF IsInf(a) THEN Inf(a.n * Sign(b.n))
    ELSE IF IsInf(b) THEN Num(0)
    ELSE Rat(a.n * b.d, a.d * b.n)
\* comparisons with NaN are all False
FLt(a, b) ==
    /\ ~IsNaN(a) /\ ~IsNaN(b)
    /\ IF IsInf(a) THEN a.n = -1 /\ ~(IsInf(b) /\ b.n = -1)
       ELSE IF IsInf(b) THEN b.n = 1
       ELSE a.n * b.d < b.n * a.d
FEq(a, b) == ~IsNaN(a) /\ ~IsNaN(b) /\ a = b
FLe(a, b) == FLt(a, b) \/ FEq(a, b)
FGt(a, b) == FLt(b, a)
\* Python's max(a, b) / min(a, b): the first argument unless the second is
\* strictly greater / smaller
PyMax(a, b) == IF FGt(b, a) THEN b ELSE a
PyMin(a, b) == IF FLt(b, a) THEN b ELSE a

(***************************************************************************)
(* classify(o, h, l, c)                                                    *)
(***************************************************************************)
Verdict(sig, conf, reason) == [sig |-> sig, conf |-> conf, reason |-> reason]

\* mutant: the confidence is not capped at 0.9
classify_uncapped(o, h, l, c) ==
    LET rng == FSub(PyMax(h, l), PyMin(h, l))
        body == FAbs(FSub(c, o))
        ratio == FDiv(body, rng)
        score == FAdd(Rat(6, 10), FDiv(ratio, Num(2)))
    IN  IF FLe(rng, Num(0)) THEN Verdict("Sideways", Rat(5, 10), "No range")
        ELSE IF FLt(ratio, Rat(2, 10))
             THEN Verdict("Sideways", Rat(5, 10), "Small body vs range")
        ELSE IF FGt(c, o) THEN Verdict("Bullish", score, "Close above open")
        ELSE IF FLt(c, o) THEN Verdict("Bearish", score, "Close below open")
        ELSE Verdict("Sideways", Rat(5, 10), "Flat")

classify(o, h, l, c) ==
    LET rng == FSub(PyMax(h, l), PyMin(h, l))
        body == FAbs(FSub(c, o))
        ratio == FDiv(body, rng)
        score == PyMin(Rat(9, 10), FAdd(Rat(6, 10), FDiv(ratio, Num(2))))
    IN  IF FLe(rng, Num(0)) THEN Verdict("Sideways", Rat(5, 10), "No range")
        ELSE IF FLt(ratio, Rat(2, 10))
             THEN Verdict("Sideways", Rat(5, 10), "Small body vs range")
        ELSE IF FGt(c, o) THEN Verdict("Bullish", score, "Close above open")
        ELSE IF FLt(c, o) THEN Verdict("Bearish", score, "Close below open")
        ELSE Verdict("Sideways", Rat(5, 10), "Flat")

(***************************************************************************)
(* Dates                                                                   *)
(***************************************************************************)
\* datetime.date.weekday(): Monday = 0 ... Sunday = 6
weekday(d) == (d + 6) % 7

Overflow == [raised |-> "OverflowError", v |-> 0]
DateValue(v) == [raised |-> "", v |-> v]
\* date + timedelta(days = k)
AddDays(d, k) == IF d + k > MAXORDINAL THEN Overflow ELSE DateValue(d + k)

\* mutant: Saturday is treated like any other day
next_business_day_no_sat(d) ==
    IF weekday(d) = 4 THEN AddDays(d, 3) ELSE AddDays(d, 1)

next_business_day(d) ==
    IF weekday(d) = 4 THEN AddDays(d, 3)
    ELSE IF weekday(d) = 5 THEN AddDays(d, 2)
    ELSE AddDays(d, 1)

IsLeap(y) == y % 4 = 0 /\ (y % 100 # 0 \/ y % 400 = 0)
DaysInMonth(y, m) ==
    IF m = 2 THEN (IF IsLeap(y) THEN 29 ELSE 28)
    ELSE IF m \in {4, 6, 9, 11} THEN 30 ELSE 31
RECURSIVE DaysBeforeMonth(_, _)
DaysBeforeMonth(y, m) ==
    IF m = 1 THEN 0 ELSE DaysBeforeMonth(y, m - 1) + DaysInMonth(y, m - 1)
toordinal(y, m, d) ==
    LET p == y - 1
    IN  p * 365 + (p \div 4) - (p \div 100) + (p \div 400) + DaysBeforeMonth(y, m) + d


(***************************************************************************)
(* find_latest_date_folder()                                               *)
(***************************************************************************)
\* re.match(r"^\d{2}\.\d{2}\.\d{4}$", name)
MatchesDatePattern(name) ==
    /\ Len(name) = 10
    /\ \A i \in {1, 2, 4, 5, 7, 8, 9, 10} : IsDigit(name[i])
    /\ name[3] = "." /\ name[6] = "."

Int2(s, i) == 10 * DigitVal(s[i]) + DigitVal(s[i + 1])
DayOf(name) == Int2(name, 1)
MonthOf(name) == Int2(name, 4)
YearOf(name) == 100 * Int2(name, 7) + Int2(name, 9)

\* datetime.strptime(name, "%d.%m.%Y") raises ValueError on an impossible date
StrptimeFails(name) ==
    \/ YearOf(name) < 1
    \/ MonthOf(name) \notin 1..12
    \/ DayOf(name) \notin 1..DaysInMonth(YearOf(name), MonthOf(name))
strptime(name) == toordinal(YearOf(name), MonthOf(name), DayOf(name))

\* mutant: p.is_dir() is not checked
DatedDirs_any_entry(d) == {e \in d.entries : MatchesDatePattern(e.name)}

\* lines 21-22: the directories whose name matches the pattern
DatedDirs(d) == {e \in d.entries : e.isDir /\ MatchesDatePattern(e.name)}
Candidates(d) == {strptime(e.name) : e \in DatedDirs(d)}
LatestDate(d) == CHOOSE x \in Candidates(d) : \A y \in Candidates(d) : y <= x

(***************************************************************************)
(* The pages and the output tree                                           *)
(***************************************************************************)
BASE_URL == <<"u">>
Slash == <<"/">>
IndexHtml == <<"i","n","d","e","x",".","h","t","m","l">>
StaticDir == <<"s","t","a","t","i","c">>
StylesCss == <<"s","t","y","l","e","s",".","c","s","s">>
RobotsTxt == <<"r","o","b","o","t","s",".","t","x","t">>
SitemapXml == <<"s","i","t","e","m","a","p",".","x","m","l">>

NoSrc == [region |-> <<>>, country |-> <<>>, row |-> 0]
NoInfo == [name |-> <<>>, sym |-> <<>>, sig |-> "", conf |-> NaN, pred |-> 0]
Page(kind, canonical, links, rows, src, info) ==
    [kind |-> kind, canonical |-> canonical, links |-> links, rows |-> rows,
     src |-> src, info |-> info]
Asset(kind) == Page(kind, <<>>, <<>>, <<>>, NoSrc, NoInfo)

\* mutant: the output root is not cleared
rmtree_keeps(d) == d

\* shutil.rmtree(DIST)
rmtree(d) == [p \in {} |-> Asset("none")]

\* mutant: an existing file is not overwritten
write_html_once(d, path, html) ==
    IF path \in DOMAIN d THEN d
    ELSE [p \in (DOMAIN d) \cup {path} |-> IF p = path THEN html ELSE d[p]]

\* write_html(path, html) / Path.write_text: create or overwrite
write_html(d, path, html) ==
    [p \in (DOMAIN d) \cup {path} |-> IF p = path THEN html ELSE d[p]]

\* "/".join(components)
RECURSIVE JoinPath(_)
JoinPath(p) ==
    IF p = <<>> THEN <<>>
    ELSE IF Len(p) = 1 THEN p[1]
    ELSE p[1] \o Slash \o JoinPath(Tail(p))

Href(path) == BASE_URL \o Slash \o JoinPath(path)

\* mutant: one character too few is dropped
Loc_drops_nine(path) ==
    LET rel == Slash \o JoinPath(path)
    IN  BASE_URL \o SubSeq(rel, 1, Len(rel) - 9)

\* the sitemap loop: rel = "/" + relative path; loc = BASE_URL + rel[:-10]
Loc(path) ==
    LET rel == Slash \o JoinPath(path)
    IN  BASE_URL \o SubSeq(rel, 1, Len(rel) - 10)

\* DIST.rglob("index.html")
IndexFiles(d) == {p \in DOMAIN d : p[Len(p)] = IndexHtml}

\* the loc elements of sitemap.xml, with their multiplicity
SitemapOf(d) ==
    LET locs == {Loc(p) : p \in IndexFiles(d)}
    IN  [u \in locs |-> Cardinality({p \in IndexFiles(d) : Loc(p) = u})]

(***************************************************************************)
(* CSV cells, read_csv_safe() and the per-row conversions                  *)
(***************************************************************************)
CNum(n) == [k |-> "num", n |-> n, s |-> <<>>]      \* numeric cell
CText(s) == [k |-> "str", n |-> 0, s |-> s]        \* text cell
CEmpty == [k |-> "nan", n |-> 0, s |-> <<>>]       \* empty cell: pandas NaN
CNone == [k |-> "none", n |-> 0, s |-> <<>>]       \* None

TextCols == {"symbol", "description"}
PriceCols == {"open", "high", "low", "close"}
AllCols == TextCols \cup PriceCols

\* read_csv_safe: a column the file lacks is added, "" for text, None for prices
read_csv_safe(raw) ==
    [i \in 1..Len(raw.rows) |->
        [c \in AllCols |->
            IF c \in raw.cols THEN raw.rows[i][c]
            ELSE IF c \in PriceCols THEN CNone ELSE CText(<<>>)]]

RECURSIVE IntStr(_)
IntStr(n) == IF n < 10 THEN <<DigitChars[n + 1]>>
             ELSE IntStr(n \div 10) \o <<DigitChars[(n % 10) + 1]>>
RECURSIVE ParseInt(_, _)
ParseInt(s, acc) == IF s = <<>> THEN acc
                    ELSE ParseInt(Tail(s), 10 * acc + DigitVal(Head(s)))

IsDigits(s) == s # <<>> /\ \A i \in 1..Len(s) : IsDigit(s[i])
InfWords == { <<"i","n","f">>, <<"i","n","f","i","n","i","t","y">> }

\* float(x): [ok, v]; ok = FALSE stands for ValueError / TypeError
float(cell) ==
    IF cell.k = "num" THEN [ok |-> TRUE, v |-> Num(cell.n)]
    ELSE IF cell.k = "nan" THEN [ok |-> TRUE, v |-> NaN]
    ELSE IF cell.k = "str" /\ IsDigits(strip(cell.s, {" "}))
         THEN [ok |-> TRUE, v |-> Num(ParseInt(strip(cell.s, {" "}), 0))]
    ELSE IF cell.k = "str" /\ lower(strip(cell.s, {" "})) \in InfWords
         THEN [ok |-> TRUE, v |-> Inf(1)]
    ELSE IF cell.k = "str" /\ lower(strip(cell.s, {" "})) = <<"n","a","n">>
         THEN [ok |-> TRUE, v |-> NaN]
    ELSE [ok |-> FALSE, v |-> NaN]

\* str(x)
str(cell) ==
    IF cell.k = "num" THEN IntStr(cell.n)
    ELSE IF cell.k = "nan" THEN <<"n","a","n">>
    ELSE IF cell.k = "none" THEN <<"N","o","n","e">>
    ELSE cell.s

\* f"{c:.2f}"
Fmt2f(x) ==
    IF IsNaN(x) THEN <<"n","a","n">>
    ELSE IF IsInf(x) THEN (IF x.n < 0 THEN <<"-","i","n","f">> ELSE <<"i","n","f">>)
    ELSE LET cents == (100 * x.n) \div x.d
         IN  IntStr(cents \div 100) \o <<".">>
                 \o <<DigitChars[((cents \div 10) % 10) + 1]>>
                 \o <<DigitChars[(cents % 10) + 1]>>

\* lines 170-173: o, h, l, c or all None
Ohlc(row) ==
    LET o == float(row["open"])
        h == float(row["high"])
        l == float(row["low"])
        c == float(row["close"])
    IN  IF o.ok /\ h.ok /\ l.ok /\ c.ok
        THEN [some |-> TRUE, o |-> o.v, h |-> h.v, l |-> l.v, c |-> c.v]
        ELSE [some |-> FALSE, o |-> NaN, h |-> NaN, l |-> NaN, c |-> NaN]

SymOf(row) == strip(str(row["symbol"]), {" "})
NameOf(row) ==
    LET n == strip(str(row["description"]), {" "})
    IN  IF n # <<>> THEN n ELSE SymOf(row)
StockSlug(row) == slug(IF NameOf(row) # <<>> THEN NameOf(row) ELSE SymOf(row))

CountryName(stem) == title(replace(stem, "-", " "))
Csv == <<".","c","s","v">>


(***************************************************************************)
(* Inputs: what the build finds on disk                                    *)
(***************************************************************************)
Dir(name) == [name |-> name, isDir |-> TRUE]
File(name) == [name |-> name, isDir |-> FALSE]
Thu31Oct2024 == <<"3","1",".","1","0",".","2","0","2","4">>
Fri01Nov2024 == <<"0","1",".","1","1",".","2","0","2","4">>
Sun03Nov2024 == <<"0","3",".","1","1",".","2","0","2","4">>
Fri31Dec9999 == <<"3","1",".","1","2",".","9","9","9","9">>
Feb31 == <<"3","1",".","0","2",".","2","0","2","4">>
Notes == <<"n","o","t","e","s">>

DataDirs ==
    { [exists |-> FALSE, entries |-> {}],
      [exists |-> TRUE, entries |-> {}],
      [exists |-> TRUE, entries |-> {Dir(Notes), File(Sun03Nov2024)}],
      [exists |-> TRUE, entries |-> {Dir(Fri01Nov2024), Dir(Feb31)}],
      [exists |-> TRUE, entries |-> {Dir(Thu31Oct2024), Dir(Fri01Nov2024), Dir(Notes),
                                     File(Sun03Nov2024)}],
      [exists |-> TRUE, entries |-> {Dir(Fri01Nov2024), Dir(Fri31Dec9999)}] }

\* what a previous build may have left under DIST
StalePath == << <<"o","l","d">>, IndexHtml >>
PriorDists ==
    { [exists |-> FALSE, files |-> rmtree(<<>>)],
      [exists |-> TRUE,
       files |-> write_html(write_html(rmtree(<<>>), StalePath, Asset("stale")),
                            <<IndexHtml>>, Asset("stale"))] }

\* what the dated folder may hold: "EU" and "eu" share the slug "eu"
EU == <<"E","U">>
RegionListings == { {}, {EU}, {EU, <<"e","u">>}, {EU, <<"U","S">>} }
\* the CSV stems a region folder may hold: "a-b" and "a.b" give the country
\* names "A B" and "A.B", which share the slug "a-b"
StemAB == <<"a","-","b">>
FileListings == { {}, {StemAB}, {StemAB, <<"a",".","b">>}, {StemAB, <<"i","n">>} }

RowTemplates ==
    { \* complete, Bullish
      [symbol |-> CText(<<"T","1">>), description |-> CText(<<"X"," ","Y">>),
       open |-> CNum(1), high |-> CNum(3), low |-> CNum(0), close |-> CNum(3)],
      \* complete, Bearish, another name with the same slug
      [symbol |-> CText(<<"T","2">>), description |-> CText(<<"x",".","y">>),
       open |-> CNum(3), high |-> CNum(4), low |-> CNum(0), close |-> CNum(2)],
      \* close is not a number
      [symbol |-> CText(<<"T","3">>), description |-> CText(<<"Z">>),
       open |-> CNum(1), high |-> CNum(3), low |-> CNum(0), close |-> CText(<<"-">>)],
      \* close is an empty cell
      [symbol |-> CText(<<"T","4">>), description |-> CText(<<"W">>),
       open |-> CNum(1), high |-> CNum(3), low |-> CNum(0), close |-> CEmpty] }
\* a CSV file has every column, or lacks description and close
FullRow == [symbol |-> CText(<<"T","5">>), description |-> CText(<<"V">>),
            open |-> CNum(1), high |-> CNum(3), low |-> CNum(0), close |-> CNum(3)]
Headers == { AllCols, AllCols \ {"description", "close"} }
RowsFor(cols) == IF cols = AllCols THEN RowTemplates ELSE {FullRow}

\* the parsed files read_csv may return, with at most maxLen rows
RawCsvs(maxLen) ==
    UNION { { [cols |-> cols, rows |-> [i \in 1..n |-> [c \in cols |-> rs[i][c]]]] :
                rs \in [1..n -> RowsFor(cols)] } :
            <<n, cols>> \in { t \in (0..maxLen) \X Headers : t[1] > 0 \/ t[2] = AllCols } }

\* sorted(listing, key = ...): every order of the listing with ascending keys
\* (the order of equal keys is the directory's iteration order)
SortedOrders(S, key) ==
    { f \in [1..Cardinality(S) -> S] :
        /\ \A i, j \in 1..Cardinality(S) : i # j => f[i] # f[j]
        /\ \A i \in 1..(Cardinality(S) - 1) : ~StrLess(key[f[i + 1]], key[f[i]]) }

RegionKey(name) == lower(name)
FileKey(stem) == lower(stem \o Csv)

(***************************************************************************)
(* main()                                                                  *)
(***************************************************************************)
mainVars == <<removed, regions, rgi, files, fi, country_links, df, ri, rows_html, wrote, nrows>>
harnessVars == <<arg, ret>>

Init ==
    /\ pc = "start"
    /\ dataDir \in DataDirs
    /\ \E prior \in PriorDists : distExists = prior.exists /\ dist = prior.files
    /\ removed = {}
    /\ written = {}
    /\ date_obj = 0
    /\ regions = <<>> /\ rgi = 0
    /\ files = <<>> /\ fi = 0
    /\ country_links = <<>>
    /\ df = <<>> /\ ri = 0
    /\ rows_html = <<>> /\ wrote = <<>>
    /\ nrows = 0
    /\ arg = <<>> /\ ret = <<>>

\* line 111: find_latest_date_folder(); SystemExit and ValueError end the run
FindLatest ==
    /\ pc = "start"
    /\ IF ~dataDir.exists THEN pc' = "aborted" /\ UNCHANGED date_obj
       ELSE IF \E e \in DatedDirs(dataDir) : StrptimeFails(e.name)
            THEN pc' = "crashed" /\ UNCHANGED date_obj
       ELSE IF Candidates(dataDir) = {} THEN pc' = "aborted" /\ UNCHANGED date_obj
       ELSE pc' = "reset" /\ date_obj' = LatestDate(dataDir)
    /\ UNCHANGED <<dataDir, distExists, dist, written>>
    /\ UNCHANGED mainVars /\ UNCHANGED harnessVars

CssPath == <<StaticDir, StylesCss>>

\* lines 114-133: reset dist, then static/styles.css (copied or the fallback)
ResetDist ==
    /\ pc = "reset"
    /\ dist' = write_html(IF distExists THEN rmtree(dist) ELSE dist, CssPath, Asset("css"))
    /\ removed' = IF distExists THEN DOMAIN dist ELSE {}
    /\ distExists' = TRUE
    /\ written' = {CssPath}
    /\ pc' = "home"
    /\ UNCHANGED <<dataDir, date_obj, regions, rgi, files, fi, country_links, df, ri,
                   rows_html, wrote, nrows>>
    /\ UNCHANGED harnessVars

RegionPath(rname) == <<slug(rname), IndexHtml>>
RegionCanonical(rname) == BASE_URL \o Slash \o slug(rname) \o Slash

\* lines 136-152: list the regions, write the home page
WriteHome ==
    /\ pc = "home"
    /\ \E listing \in RegionListings :
         \E order \in SortedOrders(listing, [r \in listing |-> RegionKey(r)]) :
            /\ regions' = order
            /\ dist' = write_html(dist, <<IndexHtml>>,
                          Page("home", BASE_URL \o Slash,
                               [i \in 1..Len(order) |-> Href(RegionPath(order[i]))],
                               <<>>, NoSrc, NoInfo))
            /\ pc' = IF order = <<>> THEN "robots" ELSE "region"
    /\ written' = written \cup {<<IndexHtml>>}
    /\ rgi' = 1
    /\ UNCHANGED <<dataDir, distExists, removed, date_obj, files, fi, country_links, df, ri,
                   rows_html, wrote, nrows>>
    /\ UNCHANGED harnessVars

\* lines 155-160: enter a region, glob and sort its CSV files
BeginRegion ==
    /\ pc = "region"
    /\ \E listing \in FileListings :
         \E order \in SortedOrders(listing, [s \in listing |-> FileKey(s)]) : files' = order
    /\ fi' = 1
    /\ country_links' = <<>>
    /\ pc' = "country"
    /\ UNCHANGED <<dataDir, distExists, dist, removed, written, date_obj, regions, rgi, df, ri,
                   rows_html, wrote, nrows>>
    /\ UNCHANGED harnessVars

\* lines 161-166: next CSV of the region: names, read_csv_safe
ReadCsv ==
    /\ pc = "country"
    /\ fi <= Len(files)
    /\ country_links' =
          Append(country_links, <<CountryName(files[fi]), slug(CountryName(files[fi]))>>)
    /\ \E raw \in RawCsvs(MaxRows - nrows) :
          /\ df' = read_csv_safe(raw)
          /\ nrows' = nrows + Len(raw.rows)
    /\ ri' = 0
    /\ rows_html' = <<>>
    /\ wrote' = <<>>
    /\ pc' = "row"
    /\ UNCHANGED <<dataDir, distExists, dist, removed, written, date_obj, regions, rgi, files, fi>>
    /\ UNCHANGED harnessVars

CurRegion == regions[rgi]
CurCountry == country_links[Len(country_links)]
StockPath(row) == <<slug(CurRegion), CurCountry[2], StockSlug(row), IndexHtml>>
StockCanonical(row) ==
    BASE_URL \o Slash \o slug(CurRegion) \o Slash \o CurCountry[2]
             \o Slash \o StockSlug(row) \o Slash

\* lines 175-177
Classification(row) ==
    IF Ohlc(row).some
    THEN classify(Ohlc(row).o, Ohlc(row).h, Ohlc(row).l, Ohlc(row).c)
    ELSE Verdict("", Num(0), "")

\* lines 186-207: the detail page is written only if we have OHLC
WritesDetail(row) == Ohlc(row).some

StockPage(row, n, pred) ==
    Page("stock", StockCanonical(row), <<>>, <<>>,
         [region |-> CurRegion, country |-> CurCountry[1], row |-> n],
         [name |-> NameOf(row), sym |-> SymOf(row), sig |-> Classification(row).sig,
          conf |-> Classification(row).conf, pred |-> pred])

\* lines 210-219
TableRow(row) ==
    [href |-> Href(StockPath(row)),
     sym |-> SymOf(row),
     name |-> NameOf(row),
     close |-> IF Ohlc(row).some THEN Fmt2f(Ohlc(row).c) ELSE <<>>,
     sig |-> Classification(row).sig]

\* mutant: the table row is appended only when a detail page was written
AppendRow_with_detail_only(rows, row) ==
    IF WritesDetail(row) THEN Append(rows, TableRow(row)) ELSE rows

\* lines 210-219: rows_html.append(...), for every row
AppendRow(rows, row) == Append(rows, TableRow(row))

\* lines 168-219: one iteration of the loop over df.iterrows()
ProcessRow ==
    /\ pc = "row"
    /\ ri < Len(df)
    /\ LET row == df[ri + 1]
           pred == next_business_day(date_obj)
       IN  IF WritesDetail(row) /\ pred.raised # ""
           THEN /\ pc' = "crashed"
                /\ UNCHANGED <<dist, written, ri, rows_html, wrote>>
           ELSE /\ IF WritesDetail(row)
                   THEN /\ dist' = write_html(dist, StockPath(row),
                                              StockPage(row, ri + 1, pred.v))
                        /\ written' = written \cup {StockPath(row)}
                        /\ wrote' = Append(wrote, 1)
                   ELSE /\ UNCHANGED <<dist, written>>
                        /\ wrote' = Append(wrote, 0)
                /\ rows_html' = AppendRow(rows_html, row)
                /\ ri' = ri + 1
                /\ pc' = "row"
    /\ UNCHANGED <<dataDir, distExists, removed, date_obj, regions, rgi, files, fi,
                   country_links, df, nrows>>
    /\ UNCHANGED harnessVars

CountryPath == <<slug(CurRegion), CurCountry[2], IndexHtml>>

\* lines 221-237: the country index page
WriteCountry ==
    /\ pc = "row"
    /\ ri = Len(df)
    /\ dist' = write_html(dist, CountryPath,
                  Page("country",
                       BASE_URL \o Slash \o slug(CurRegion) \o Slash \o CurCountry[2] \o Slash,
                       <<>>, rows_html,
                       [region |-> CurRegion, country |-> CurCountry[1], row |-> 0],
                       NoInfo))
    /\ written' = written \cup {CountryPath}
    /\ fi' = fi + 1
    /\ pc' = "country"
    /\ UNCHANGED <<dataDir, distExists, removed, date_obj, regions, rgi, files, country_links,
                   df, ri, rows_html, wrote, nrows>>
    /\ UNCHANGED harnessVars

\* lines 239-253: the region index page
WriteRegion ==
    /\ pc = "country"
    /\ fi > Len(files)
    /\ dist' = write_html(dist, RegionPath(CurRegion),
                  Page("region", RegionCanonical(CurRegion),
                       [i \in 1..Len(country_links) |->
                           Href(<<slug(CurRegion), country_links[i][2], IndexHtml>>)],
                       <<>>,
                       [region |-> CurRegion, country |-> <<>>, row |-> 0],
                       NoInfo))
    /\ written' = written \cup {RegionPath(CurRegion)}
    /\ rgi' = rgi + 1
    /\ pc' = IF rgi + 1 > Len(regions) THEN "robots" ELSE "region"
    /\ UNCHANGED <<dataDir, distExists, removed, date_obj, regions, files, fi, country_links,
                   df, ri, rows_html, wrote, nrows>>
    /\ UNCHANGED harnessVars

\* lines 256-273: robots.txt, then sitemap.xml from the index pages on disk
WriteRobotsAndSitemap ==
    /\ pc = "robots"
    /\ LET withRobots == write_html(dist, <<RobotsTxt>>, Asset("robots"))
       IN  dist' = write_html(withRobots, <<SitemapXml>>,
                      Page("sitemap", <<>>, SitemapOf(withRobots), <<>>, NoSrc, NoInfo))
    /\ written' = written \cup {<<RobotsTxt>>, <<SitemapXml>>}
    /\ pc' = "done"
    /\ UNCHANGED <<dataDir, distExists, date_obj>>
    /\ UNCHANGED mainVars /\ UNCHANGED harnessVars

Next ==
    \/ FindLatest
    \/ ResetDist
    \/ WriteHome
    \/ BeginRegion
    \/ ReadCsv
    \/ ProcessRow
    \/ WriteCountry
    \/ WriteRegion
    \/ WriteRobotsAndSitemap

Spec == Init /\ [][Next]_vars


(***************************************************************************)
(* Harness for classify(): prices in 0..MaxPrice, NaN or +inf              *)
(***************************************************************************)
Idle ==
    /\ dataDir = [exists |-> FALSE, entries |-> {}]
    /\ distExists = FALSE /\ dist = rmtree(<<>>)
    /\ removed = {} /\ written = {}
    /\ date_obj = 0
    /\ regions = <<>> /\ rgi = 0
    /\ files = <<>> /\ fi = 0
    /\ country_links = <<>>
    /\ df = <<>> /\ ri = 0
    /\ rows_html = <<>> /\ wrote = <<>>
    /\ nrows = 0
IdleVars == <<dataDir, distExists, dist, written, date_obj, mainVars>>

Prices == {Num(n) : n \in 0..MaxPrice} \cup {NaN, Inf(1)}

InitClassify ==
    /\ Idle
    /\ pc = "classify"
    /\ arg \in [o : Prices, h : Prices, l : Prices, c : Prices]
    /\ ret = <<>>

CallClassify ==
    /\ pc = "classify"
    /\ ret' = classify(arg.o, arg.h, arg.l, arg.c)
    /\ pc' = "classified"
    /\ UNCHANGED arg /\ UNCHANGED IdleVars

NextClassify == CallClassify
SpecClassify == InitClassify /\ [][NextClassify]_vars

(***************************************************************************)
(* Harness for next_business_day(): DateSpan days from 1 November 2024 and *)
(* the last DateSpan days of the calendar                                  *)
(***************************************************************************)
Nov2024 == toordinal(2024, 11, 1)
SessionDates ==
    (Nov2024 .. (Nov2024 + DateSpan - 1)) \cup ((MAXORDINAL - DateSpan + 1) .. MAXORDINAL)

InitDate ==
    /\ Idle
    /\ pc = "project"
    /\ arg \in SessionDates
    /\ ret = <<>>

CallNextBusinessDay ==
    /\ pc = "project"
    /\ ret' = next_business_day(arg)
    /\ pc' = "projected"
    /\ UNCHANGED arg /\ UNCHANGED IdleVars

NextDate == CallNextBusinessDay
SpecDate == InitDate /\ [][NextDate]_vars

(***************************************************************************)
(* What the CSV says about a row, in the words of the specification        *)
(***************************************************************************)
\* the cell is present and holds a number
IsNumericCell(cell) ==
    \/ cell.k = "num"
    \/ cell.k = "str" /\ IsDigits(strip(cell.s, {" "}))
HasCompleteOhlc(row) == \A c \in PriceCols : IsNumericCell(row[c])

InCountry == pc = "row" \/ (pc = "country" /\ fi > 1) \/ (pc = "crashed" /\ df # <<>>)

Half == Rat(1, 2)
NineTenths == Rat(9, 10)

(***************************************************************************)
(* C1: a detail page is written for a CSV row only if open, high, low and  *)
(* close are all present and numeric; a row for which one of them is       *)
(* missing, empty or not a number still gets its table row, but no detail  *)
(* page and no classification.                                             *)
(***************************************************************************)
C1_DetailOnlyWithNumericOhlc ==
    InCountry =>
        \A i \in 1..Len(wrote) :
            /\ wrote[i] > 0 => HasCompleteOhlc(df[i])
            /\ ~HasCompleteOhlc(df[i]) =>
                  /\ wrote[i] = 0
                  /\ i <= Len(rows_html)
                  /\ rows_html[i].sig = ""

(***************************************************************************)
(* C2: when main() completes, the loc entries of sitemap.xml are exactly   *)
(* the canonical URLs of the index pages in the output tree: every loc is  *)
(* the canonical URL of an index.html that exists and was written by this  *)
(* run, every index.html has exactly one loc, and loc followed by          *)
(* "index.html" is base_url + "/" + the file's path.                       *)
(***************************************************************************)
C2_SitemapMatchesWrittenPages ==
    pc = "done" =>
        LET sm == dist[<<SitemapXml>>].links
            idx == {p \in DOMAIN dist : p[Len(p)] = IndexHtml}
        IN  /\ \A u \in DOMAIN sm :
                 \E p \in idx : dist[p].canonical = u /\ p \in written
            /\ \A p \in idx :
                 /\ p \in written
                 /\ dist[p].canonical \in DOMAIN sm
                 /\ sm[dist[p].canonical] = 1
                 /\ dist[p].canonical \o IndexHtml = BASE_URL \o Slash \o JoinPath(p)
            /\ Cardinality(DOMAIN sm) = Cardinality(idx)

C2_Witness ==
    /\ pc = "done"
    /\ \E p \in DOMAIN dist : dist[p].kind = "stock"
    /\ \E p \in DOMAIN dist : dist[p].kind = "country" /\ Len(dist[p].rows) > 1
    /\ Cardinality(DOMAIN dist[<<SitemapXml>>].links) >= 4

(***************************************************************************)
(* C3: whatever a previous build left under the output root, after a       *)
(* successful run the root holds only files this run wrote (the            *)
(* stylesheet, index pages, robots.txt, sitemap.xml); no file that was     *)
(* there before and was not rewritten survives.                            *)
(***************************************************************************)
C3_NoStaleFileSurvives ==
    pc = "done" =>
        /\ DOMAIN dist \subseteq written
        /\ \A p \in removed : p \in DOMAIN dist => p \in written /\ dist[p].kind # "stale"
        /\ \A p \in DOMAIN dist :
              \/ p \in {CssPath, <<RobotsTxt>>, <<SitemapXml>>}
              \/ p[Len(p)] = IndexHtml /\ dist[p].kind \in {"home", "region", "country", "stock"}

C3_Witness ==
    /\ pc = "done"
    /\ StalePath \in removed
    /\ <<IndexHtml>> \in removed
    /\ \E p \in DOMAIN dist : dist[p].kind = "stock"

(***************************************************************************)
(* C4: if Data/ is missing or holds no directory named DD.MM.YYYY, the     *)
(* build aborts in find_latest_date_folder, before the output root is      *)
(* reset: nothing is removed, nothing is written, and the output of a      *)
(* previous build is left as it was.                                       *)
(***************************************************************************)
NoSnapshot ==
    \/ ~dataDir.exists
    \/ ~\E e \in dataDir.entries : e.isDir /\ MatchesDatePattern(e.name)

C4_AbortLeavesOutputUntouched ==
    /\ [](NoSnapshot => pc \in {"start", "aborted"} /\ removed = {} /\ written = {})
    /\ [][(NoSnapshot /\ pc = "start") =>
             (pc' = "aborted" /\ dist' = dist /\ distExists' = distExists)]_vars

C4_Witness ==
    /\ pc = "aborted"
    /\ dataDir.exists /\ dataDir.entries # {}
    /\ StalePath \in DOMAIN dist

(***************************************************************************)
(* C5: the table of a country page has exactly one row per CSV row, in the *)
(* file's order, and a CSV row gives rise to at most one detail page; no   *)
(* row is dropped, whatever fields are missing or unparseable.             *)
(***************************************************************************)
C5_OneTableRowPerCsvRow ==
    InCountry =>
        /\ Len(rows_html) = ri /\ Len(wrote) = ri /\ ri <= Len(df)
        /\ \A i \in 1..ri :
              /\ rows_html[i].sym = strip(str(df[i]["symbol"]), {" "})
              /\ wrote[i] <= 1
        /\ (pc = "country" /\ fi > 1) =>
              /\ ri = Len(df)
              /\ dist[CountryPath].kind = "country"
              /\ dist[CountryPath].rows = rows_html

C5_Witness ==
    /\ pc = "country" /\ fi > 1
    /\ Len(df) = 2
    /\ df[1]["symbol"] # df[2]["symbol"]
    /\ ~HasCompleteOhlc(df[1]) /\ HasCompleteOhlc(df[2])
    /\ wrote = <<0, 1>>

(***************************************************************************)
(* C6: for every session date d, next_business_day(d) is later than d,     *)
(* is d+3 on a Friday, d+2 on a Saturday and d+1 otherwise, and is a       *)
(* Monday-to-Friday weekday.                                               *)
(***************************************************************************)
C6_NextBusinessDay ==
    pc = "projected" =>
        /\ ret.raised = ""
        /\ ret.v > arg
        /\ ret.v - arg = (IF arg % 7 = 5 THEN 3 ELSE IF arg % 7 = 6 THEN 2 ELSE 1)
        /\ ret.v % 7 \in 1..5

\* C6 as amended: the same for every session date but 31 December 9999
\* (date.max, a Friday), for which the addition raises OverflowError
C6_NextBusinessDayBelowMax ==
    pc = "projected" =>
        IF arg = MAXORDINAL
        THEN ret.raised = "OverflowError"
        ELSE /\ ret.raised = ""
             /\ ret.v > arg
             /\ ret.v - arg = (IF arg % 7 = 5 THEN 3 ELSE IF arg % 7 = 6 THEN 2 ELSE 1)
             /\ ret.v % 7 \in 1..5

C6_Witness ==
    /\ pc = "projected"
    /\ arg = Nov2024 + 1
    /\ arg % 7 = 6
    /\ ret.v = arg + 2

(***************************************************************************)
(* C7: classify returns a confidence within [0.5, 0.9]; exactly 0.5 when   *)
(* the signal is Sideways, with (Sideways, 0.5, "No range") whenever       *)
(* high = low; and min(0.9, 0.6 + bodyRatio/2) when the signal is Bullish  *)
(* (close > open) or Bearish (close < open) with bodyRatio >= 0.2, also    *)
(* when bodyRatio exceeds 1.                                               *)
(***************************************************************************)
C7_Body(finiteOnly) ==
    pc = "classified" =>
        LET finite == \A f \in {arg.o, arg.h, arg.l, arg.c} : IsFinite(f)
            numeric == \A f \in {arg.o, arg.h, arg.l, arg.c} : ~IsNaN(f)
            o == arg.o.n
            h == arg.h.n
            l == arg.l.n
            c == arg.c.n
            rng == AbsInt(h - l)
            body == AbsInt(c - o)
        IN  /\ IsFinite(ret.conf)
            /\ 2 * ret.conf.n >= ret.conf.d
            /\ 10 * ret.conf.n <= 9 * ret.conf.d
            /\ ret.sig \in {"Bullish", "Bearish", "Sideways"}
            /\ ret.sig = "Sideways" => ret.conf = Half
            /\ (IF finiteOnly THEN finite ELSE numeric) =>
                 (arg.h = arg.l => ret = Verdict("Sideways", Half, "No range"))
            /\ finite =>
                 /\ (rng > 0 /\ 5 * body >= rng /\ c # o) =>
                      /\ ret.sig = (IF c > o THEN "Bullish" ELSE "Bearish")
                      /\ IF 5 * body >= 3 * rng
                         THEN ret.conf = NineTenths
                         ELSE ret.conf.n * (10 * rng) = ret.conf.d * (6 * rng + 5 * body)
                 /\ ret.sig = "Bullish" => c > o /\ 5 * body >= rng
                 /\ ret.sig = "Bearish" => c < o /\ 5 * body >= rng

C7_ConfidenceBounds == C7_Body(FALSE)

\* C7 as amended: (Sideways, 0.5, "No range") whenever high = low and the
\* four prices are finite; with high = low = +inf the range is NaN
C7_ConfidenceBoundsFinite == C7_Body(TRUE)

C7_Witness ==
    /\ pc = "classified"
    /\ arg = [o |-> Num(0), h |-> Num(2), l |-> Num(1), c |-> Num(4)]
    /\ ret.sig = "Bullish"
    /\ ret.conf = NineTenths

(***************************************************************************)
(* C8: in every table row, the close cell is blank whenever the row's      *)
(* close is absent (column missing, cell empty or unparseable) and the     *)
(* signal cell is blank whenever the row lacks complete OHLC; a non-blank  *)
(* signal appears only for rows with complete OHLC.                        *)
(***************************************************************************)
C8_BlankCellsForMissingData ==
    InCountry =>
        \A i \in 1..Len(rows_html) :
            /\ ~IsNumericCell(df[i]["close"]) => rows_html[i].close = <<>>
            /\ ~HasCompleteOhlc(df[i]) => rows_html[i].sig = ""
            /\ rows_html[i].sig # "" => HasCompleteOhlc(df[i])

(***************************************************************************)
(* C9: two names that normalise to the same slug are neither rejected nor  *)
(* made unique: both rows (countries, regions) write to the same path, the *)
(* page at that path holds the content of the one written last, and the    *)
(* country table still has a row for each.                                 *)
(***************************************************************************)
LastSuch(S) == CHOOSE j \in S : \A k \in S : k <= j

C9_LastWriteWins ==
    /\ InCountry =>
         /\ Len(rows_html) = ri
         /\ \A i \in 1..Len(wrote) :
              wrote[i] = 1 =>
                 LET same == {j \in 1..Len(wrote) :
                                 wrote[j] = 1 /\ StockSlug(df[j]) = StockSlug(df[i])}
                     last == LastSuch(same)
                     page == dist[StockPath(df[i])]
                 IN  /\ StockPath(df[i]) \in DOMAIN dist
                     /\ page.kind = "stock"
                     /\ page.src = [region |-> CurRegion, country |-> CurCountry[1],
                                    row |-> last]
                     /\ page.info.name = NameOf(df[last])
                     /\ page.info.sym = SymOf(df[last])
    /\ (pc = "country" /\ fi > 1) =>
         \A i \in 1..Len(country_links) :
            LET same == {j \in 1..Len(country_links) :
                            country_links[j][2] = country_links[i][2]}
                path == <<slug(CurRegion), country_links[i][2], IndexHtml>>
            IN  /\ path \in DOMAIN dist
                /\ dist[path].src.country = country_links[LastSuch(same)][1]
    /\ pc \in {"region", "robots", "done"} =>
         \A i \in 1..(rgi - 1) :
            LET same == {j \in 1..(rgi - 1) : slug(regions[j]) = slug(regions[i])}
            IN  /\ RegionPath(regions[i]) \in DOMAIN dist
                /\ dist[RegionPath(regions[i])].src.region = regions[LastSuch(same)]

C9_Witness ==
    /\ pc = "row" /\ ri = 2
    /\ wrote = <<1, 1>>
    /\ HasCompleteOhlc(df[1]) /\ HasCompleteOhlc(df[2])
    /\ NameOf(df[1]) # NameOf(df[2])
    /\ StockSlug(df[1]) = StockSlug(df[2])
    /\ dist[StockPath(df[1])].info.name = NameOf(df[2])
    /\ Len(rows_html) = 2

(***************************************************************************)
(* C10: when main() completes, every internal link of every page (home to  *)
(* region, region to country, country table row to stock detail) targets   *)
(* an index.html that exists in the output tree.                           *)
(***************************************************************************)
LinksOf(page) ==
    IF page.kind \in {"home", "region"} THEN Range(page.links)
    ELSE IF page.kind = "country" THEN {page.rows[i].href : i \in 1..Len(page.rows)}
    ELSE {}
Resolves(link) == \E q \in DOMAIN dist : q[Len(q)] = IndexHtml /\ Href(q) = link

C10_NoDanglingLink ==
    pc = "done" => \A p \in DOMAIN dist : \A link \in LinksOf(dist[p]) : Resolves(link)

====
